---- MODULE Spec2Model ----
(***************************************************************************)
(* A model of src/app.js, the mortgage calculator.                         *)
(*                                                                         *)
(* JavaScript Numbers are IEEE 754 binary64 values.  They are modelled     *)
(* here bit for bit: a finite Number is sign * m * 2^e with m an           *)
(* arbitrary-precision natural (a sequence of limbs), and every            *)
(* arithmetic operation rounds its exact result to Prec significant bits,  *)
(* ties to even.  NaN and the infinities are values of their own.  The     *)
(* exponent range of binary64 (overflow, subnormals) and the sign of zero  *)
(* are not modelled: the inputs drawn below stay far away from both.       *)
(*                                                                         *)
(* Texts (the values of form fields and the arguments handed to            *)
(* calculateMortgage) are sequences of one-character strings.              *)
(***************************************************************************)
EXTENDS Integers, Sequences, FiniteSets, TLC

VARIABLES
  state,      \* the shared state object (app.js 6-14)
  form,       \* the DOM form controls: three text inputs and the radio group
  store,      \* window.mortgageData
  view,       \* what renderResults last put into #resultsDisplay
  started,    \* init has run and the listeners are registered
  callArgs,   \* arguments of the last direct call of calculateMortgage
  ret         \* what that call returned

vars == <<state, form, store, view, started, callArgs, ret>>

NULL == [k |-> "null"]

(***************************************************************************)
(* Arbitrary-precision naturals: little-endian sequences of limbs in       *)
(* 0..Base-1 with no leading zero limb; zero is the empty sequence.        *)
(***************************************************************************)
LimbBits == 14
Base == 2^LimbBits

Limb(a, i) == IF i <= Len(a) THEN a[i] ELSE 0

\* a without its leading zero limbs
BTrim(a) ==
  IF \A i \in 1..Len(a) : a[i] = 0 THEN <<>>
  ELSE SubSeq(a, 1, CHOOSE i \in 1..Len(a) :
                      a[i] # 0 /\ \A j \in (i + 1)..Len(a) : a[j] = 0)

RECURSIVE BFromInt(_)
BFromInt(k) == IF k = 0 THEN <<>> ELSE <<k % Base>> \o BFromInt(k \div Base)

RECURSIVE BToInt(_)
BToInt(a) == IF a = <<>> THEN 0 ELSE a[1] + Base * BToInt(Tail(a))

BCmp(a, b) ==
  IF Len(a) < Len(b) THEN -1
  ELSE IF Len(a) > Len(b) THEN 1
  ELSE IF a = b THEN 0
  ELSE LET i == CHOOSE i \in 1..Len(a) :
                  a[i] # b[i] /\ \A j \in (i + 1)..Len(a) : a[j] = b[j]
       IN  IF a[i] < b[i] THEN -1 ELSE 1

\* the carry into limb i of a sum whose limb-wise sums are s
RECURSIVE Carry(_, _)
Carry(s, i) ==
  i > 1 /\ (s[i - 1] >= Base \/ (s[i - 1] = Base - 1 /\ Carry(s, i - 1)))

BAdd(a, b) ==
  LET n == (IF Len(a) > Len(b) THEN Len(a) ELSE Len(b)) + 1
      s == [i \in 1..n |-> Limb(a, i) + Limb(b, i)]
  IN  BTrim([i \in 1..n |-> (s[i] + IF Carry(s, i) THEN 1 ELSE 0) % Base])

\* the borrow from limb i of a difference whose limb-wise differences are d
RECURSIVE Borrow(_, _)
Borrow(d, i) ==
  i > 1 /\ (d[i - 1] < 0 \/ (d[i - 1] = 0 /\ Borrow(d, i - 1)))

\* a - b for a >= b
BSub(a, b) ==
  LET d == [i \in 1..Len(a) |-> a[i] - Limb(b, i)]
  IN  BTrim([i \in 1..Len(a) |->
               (d[i] - (IF Borrow(d, i) THEN 1 ELSE 0) + Base) % Base])

\* a * k for 0 <= k <= Base
BMulSmall(a, k) ==
  BAdd([i \in 1..Len(a) |-> (a[i] * k) % Base],
       <<0>> \o [i \in 1..Len(a) |-> (a[i] * k) \div Base])

\* a * b, limb by limb of b (b is the short operand)
RECURSIVE BMul(_, _)
BMul(a, b) ==
  IF a = <<>> \/ b = <<>> THEN <<>>
  ELSE BAdd(BMulSmall(a, b[1]), BTrim(<<0>> \o BMul(a, Tail(b))))

Zeros(n) == [i \in 1..n |-> 0]

\* a * 2^n
BShl(a, n) ==
  IF a = <<>> THEN a
  ELSE Zeros(n \div LimbBits) \o BMulSmall(a, 2^(n % LimbBits))

\* floor(a / 2^n)
BShr(a, n) ==
  LET skip == n \div LimbBits
      bits == n % LimbBits
  IN  IF skip >= Len(a) THEN <<>>
      ELSE BTrim([i \in 1..(Len(a) - skip) |->
                    a[i + skip] \div 2^bits
                    + (Limb(a, i + skip + 1) % 2^bits) * 2^(LimbBits - bits)])

RECURSIVE IntBitLen(_)
IntBitLen(k) == IF k = 0 THEN 0 ELSE 1 + IntBitLen(k \div 2)

BBitLen(a) ==
  IF a = <<>> THEN 0 ELSE (Len(a) - 1) * LimbBits + IntBitLen(a[Len(a)])

BIsOdd(a) == a # <<>> /\ a[1] % 2 = 1

\* the number of trailing zero bits of a # 0
RECURSIVE IntTrailing(_)
IntTrailing(k) == IF k % 2 = 1 THEN 0 ELSE 1 + IntTrailing(k \div 2)

BTrailing(a) ==
  LET i == CHOOSE i \in 1..Len(a) : a[i] # 0 /\ \A j \in 1..(i - 1) : a[j] = 0
  IN  (i - 1) * LimbBits + IntTrailing(a[i])

\* one step of binary long division, for bit i of the quotient; st holds
\* the quotient and the remainder so far
BDivStep(st, b, i) ==
  IF BCmp(st.rem, BShl(b, i)) >= 0
  THEN [q |-> BAdd(BMulSmall(st.q, 2), <<1>>), rem |-> BSub(st.rem, BShl(b, i))]
  ELSE [q |-> BMulSmall(st.q, 2), rem |-> st.rem]

\* the steps for the bits from hi down to lo, the upper half of them first
RECURSIVE BDivLoop(_, _, _, _)
BDivLoop(st, b, hi, lo) ==
  IF hi < lo THEN st
  ELSE IF st.rem = <<>> THEN [q |-> BShl(st.q, hi - lo + 1), rem |-> <<>>]
  ELSE IF hi = lo THEN BDivStep(st, b, hi)
  ELSE BDivLoop(BDivLoop(st, b, hi, (hi + lo) \div 2 + 1), b, (hi + lo) \div 2, lo)

\* [q |-> floor(a / b), rem |-> a mod b] for b # 0
BDivMod(a, b) ==
  IF BCmp(a, b) < 0 THEN [q |-> <<>>, rem |-> a]
  ELSE BDivLoop([q |-> <<>>, rem |-> a], b, BBitLen(a) - BBitLen(b), 0)

\* acc * a^k, by k multiplications with a, the first half of them first
RECURSIVE BPowLoop(_, _, _)
BPowLoop(acc, a, k) ==
  IF k = 0 \/ acc = <<>> THEN acc
  ELSE IF k = 1 THEN BMul(acc, a)
  ELSE BPowLoop(BPowLoop(acc, a, k \div 2), a, k - k \div 2)

BPow(a, k) == BPowLoop(<<1>>, a, k)

(***************************************************************************)
(* Numbers.  [k |-> "num", s, m, e] is (-1)^s * m * 2^e with m odd (or     *)
(* m = 0, s = 0, e = 0), so that equal Numbers are equal records.          *)
(***************************************************************************)
Prec == 53

NaN == [k |-> "nan"]
Inf(s) == [k |-> "inf", s |-> s]
Zero == [k |-> "num", s |-> 0, m |-> <<>>, e |-> 0]

Canon(s, m, e) ==
  IF m = <<>> THEN Zero
  ELSE LET tz == BTrailing(m)
       IN  [k |-> "num", s |-> s, m |-> BShr(m, tz), e |-> e + tz]

\* (-1)^s * (n + a fraction in [0,1), nonzero iff sticky) * 2^e, rounded to
\* Prec significant bits, ties to even
Round(s, n, e, sticky) ==
  LET len == BBitLen(n)
  IN  IF len <= Prec THEN Canon(s, n, e)
      ELSE LET sh   == len - Prec
               q    == BShr(n, sh)
               r    == BSub(n, BShl(q, sh))
               c    == BCmp(r, BShl(<<1>>, sh - 1))
               up   == c > 0 \/ (c = 0 /\ (sticky \/ BIsOdd(q)))
           IN  Canon(s, IF up THEN BAdd(q, <<1>>) ELSE q, e + sh)

FromInt(i) == IF i < 0 THEN Canon(1, BFromInt(-i), 0) ELSE Canon(0, BFromInt(i), 0)

IsNaN(x) == x.k = "nan"
IsNum(x) == x.k = "num"
IsZero(x) == x.k = "num" /\ x.m = <<>>

FNeg(x) ==
  IF x.k = "nan" \/ IsZero(x) THEN x
  ELSE [x EXCEPT !.s = 1 - x.s]

\* the sign of a Number that is not NaN: -1, 0 or 1
Sign(x) == IF x.k = "inf" THEN 1 - 2 * x.s
           ELSE IF x.m = <<>> THEN 0 ELSE 1 - 2 * x.s

CmpMag(x, y) ==
  LET e == IF x.e < y.e THEN x.e ELSE y.e
  IN  BCmp(BShl(x.m, x.e - e), BShl(y.m, y.e - e))

Cmp(x, y) ==
  IF x.k = "inf" \/ y.k = "inf"
  THEN (IF x.k = "inf" THEN 2 * Sign(x) ELSE Sign(x))
       - (IF y.k = "inf" THEN 2 * Sign(y) ELSE Sign(y))
  ELSE IF Sign(x) # Sign(y) THEN Sign(x) - Sign(y)
  ELSE IF Sign(x) = 0 THEN 0
  ELSE Sign(x) * CmpMag(x, y)

\* the relational operators of JavaScript: every comparison with NaN is false
Lt(x, y) == ~IsNaN(x) /\ ~IsNaN(y) /\ Cmp(x, y) < 0
Le(x, y) == ~IsNaN(x) /\ ~IsNaN(y) /\ Cmp(x, y) <= 0
StrictEq(x, y) == ~IsNaN(x) /\ ~IsNaN(y) /\ Cmp(x, y) = 0

FAdd(x, y) ==
  IF IsNaN(x) \/ IsNaN(y) THEN NaN
  ELSE IF x.k = "inf"
       THEN IF y.k = "inf" /\ y.s # x.s THEN NaN ELSE x
  ELSE IF y.k = "inf" THEN y
  ELSE LET e == IF x.e < y.e THEN x.e ELSE y.e
           a == BShl(x.m, x.e - e)
           b == BShl(y.m, y.e - e)
       IN  IF x.s = y.s THEN Round(x.s, BAdd(a, b), e, FALSE)
           ELSE IF BCmp(a, b) >= 0 THEN Round(x.s, BSub(a, b), e, FALSE)
           ELSE Round(y.s, BSub(b, a), e, FALSE)

FSub(x, y) == FAdd(x, FNeg(y))

Xor(s, t) == (s + t) % 2

FMul(x, y) ==
  IF IsNaN(x) \/ IsNaN(y) THEN NaN
  ELSE IF x.k = "inf" \/ y.k = "inf"
       THEN IF IsZero(x) \/ IsZero(y) THEN NaN ELSE Inf(Xor(x.s, y.s))
  ELSE Round(Xor(x.s, y.s), BMul(x.m, y.m), x.e + y.e, FALSE)

\* (-1)^s * (a / b) * 2^e for naturals a, b # 0, correctly rounded
DivRound(s, a, b, e) ==
  LET need == Prec + 2 + BBitLen(b) - BBitLen(a)
      sh   == IF need > 0 THEN need ELSE 0
      qr   == BDivMod(BShl(a, sh), b)
  IN  Round(s, qr.q, e - sh, qr.rem # <<>>)

FDiv(x, y) ==
  IF IsNaN(x) \/ IsNaN(y) THEN NaN
  ELSE IF x.k = "inf"
       THEN IF y.k = "inf" THEN NaN ELSE Inf(Xor(x.s, y.s))
  ELSE IF y.k = "inf" THEN Zero
  ELSE IF IsZero(y)
       THEN IF IsZero(x) THEN NaN ELSE Inf(x.s)
  ELSE IF IsZero(x) THEN Zero
  ELSE DivRound(Xor(x.s, y.s), x.m, y.m, x.e - y.e)

\* the value of a Number that is a natural number below Base
IsSmallNat(n) == n.k = "num" /\ n.s = 0 /\ n.e >= 0 /\ BBitLen(n.m) + n.e <= LimbBits
SmallNat(n) == BToInt(n.m) * 2^n.e

\* Math.pow(x, n) for a finite x > 0 and an exponent that is NaN or a
\* natural number: the exact power, rounded once
MathPow(x, n) ==
  IF IsNaN(x) \/ IsNaN(n) THEN NaN
  ELSE IF x.k = "inf" THEN x
  ELSE LET k == SmallNat(n)
       IN  Round(0, BPow(x.m, k), x.e * k, FALSE)

(***************************************************************************)
(* Texts and their conversion to Numbers.  The characters that occur are   *)
(* digits, "-", "+", "." and letters; exponents, hexadecimal literals,     *)
(* "Infinity" and white space do not occur in the texts drawn below.       *)
(***************************************************************************)
DigitChars == <<"0", "1", "2", "3", "4", "5", "6", "7", "8", "9">>
IsDigit(c) == \E d \in 1..10 : DigitChars[d] = c
DigitVal(c) == (CHOOSE d \in 1..10 : DigitChars[d] = c) - 1

\* the first position from p on that holds no digit
RECURSIVE RunEnd(_, _)
RunEnd(t, p) ==
  IF p <= Len(t) /\ IsDigit(t[p]) THEN RunEnd(t, p + 1) ELSE p

\* the natural number written by the digits of t from position p up to
\* q - 1: its two halves, the upper one scaled
RECURSIVE DigitsToNat(_, _, _)
DigitsToNat(t, p, q) ==
  IF p >= q THEN <<>>
  ELSE IF q = p + 1 THEN BFromInt(DigitVal(t[p]))
  ELSE BAdd(BMul(DigitsToNat(t, p, (p + q) \div 2), BPow(<<10>>, q - (p + q) \div 2)),
            DigitsToNat(t, (p + q) \div 2, q))

\* the longest prefix of t that is a decimal literal: sign, integer digits,
\* ".", fraction digits, with at least one digit
Scan(t) ==
  LET signed  == t # <<>> /\ t[1] \in {"-", "+"}
      p0      == IF signed THEN 2 ELSE 1
      p1      == RunEnd(t, p0)
      dot     == p1 <= Len(t) /\ t[p1] = "."
      p2      == IF dot THEN RunEnd(t, p1 + 1) ELSE p1
      nfrac   == IF dot THEN p2 - (p1 + 1) ELSE 0
      nint    == p1 - p0
  IN  [ok    |-> nint + nfrac >= 1,
       neg   |-> signed /\ t[1] = "-",
       int   |-> DigitsToNat(t, p0, p1),
       frac  |-> IF dot THEN DigitsToNat(t, p1 + 1, p2) ELSE <<>>,
       nfrac |-> nfrac,
       end   |-> p2]

\* the Number nearest to the decimal literal scanned
Decimal(sc) ==
  LET scale == BPow(<<10>>, sc.nfrac)
      d     == BAdd(BMul(sc.int, scale), sc.frac)
  IN  IF d = <<>> THEN Zero
      ELSE DivRound(IF sc.neg THEN 1 ELSE 0, d, scale, 0)

\* parseFloat: the longest numeric prefix, NaN when there is none
parseFloat(t) ==
  LET sc == Scan(t) IN IF sc.ok THEN Decimal(sc) ELSE NaN

\* ToNumber, the conversion a relational operator applies to a text operand:
\* the whole text must be a numeric literal, and the empty text is 0
ToNumber(t) ==
  LET sc == Scan(t)
  IN  IF t = <<>> THEN Zero
      ELSE IF sc.ok /\ sc.end = Len(t) + 1 THEN Decimal(sc)
      ELSE NaN

\* ToBoolean of a text: the empty text is falsy
Truthy(t) == t # <<>>

(***************************************************************************)
(* calculateMortgage (app.js 24-58).  Each local of the function is a       *)
(* parameter of the operator that continues from the statement binding it.  *)
(***************************************************************************)
One == FromInt(1)

\* the object returned (app.js 50-57)
Summary(monthlyPayment, totalPayment, totalInterest, principalAmount) ==
  [k                   |-> "summary",
   monthlyPayment      |-> monthlyPayment,
   totalPayment        |-> totalPayment,
   totalInterest       |-> totalInterest,
   principalAmount     |-> principalAmount,
   interestPercentage  |-> FMul(FDiv(totalInterest, totalPayment), FromInt(100)),
   principalPercentage |-> FMul(FDiv(principalAmount, totalPayment), FromInt(100))]

\* FromTotalPayment with the subtraction the other way round
FromTotalPaymentSwapped(P, monthlyPayment, totalPayment) ==
  Summary(monthlyPayment, totalPayment, FSub(P, totalPayment), P)

\* const totalInterest = totalPayment - P, and the return (app.js 47-57)
FromTotalPayment(P, monthlyPayment, totalPayment) ==
  Summary(monthlyPayment, totalPayment, FSub(totalPayment, P), P)

\* const totalPayment = monthlyPayment * n, and what follows (app.js 46-57)
FromMonthlyPayment(P, n, monthlyPayment) ==
  FromTotalPayment(P, monthlyPayment, FMul(monthlyPayment, n))

\* MonthlyPayment without the branch for a zero rate
MonthlyPaymentAmortized(P, r, n) ==
  FMul(P, FDiv(FMul(r, MathPow(FAdd(One, r), n)),
               FSub(MathPow(FAdd(One, r), n), One)))

\* the monthly payment, with and without interest (app.js 35-44)
MonthlyPayment(P, r, n) ==
  IF StrictEq(r, Zero)
  THEN FDiv(P, n)
  ELSE FMul(P, FDiv(FMul(r, MathPow(FAdd(One, r), n)),
                    FSub(MathPow(FAdd(One, r), n), One)))

\* FromParsed with the principal compared by < in place of <=
FromParsedStrict(P, r, n, annualRate, years) ==
  IF \/ Lt(P, Zero)
     \/ Lt(ToNumber(annualRate), Zero)
     \/ Le(ToNumber(years), Zero)
  THEN NULL
  ELSE FromMonthlyPayment(P, n, MonthlyPayment(P, r, n))

\* the validation and what follows it (app.js 30-57); the comparisons of
\* annualRate and years are on the arguments as passed, not on r and n
FromParsed(P, r, n, annualRate, years) ==
  IF \/ Le(P, Zero)
     \/ Lt(ToNumber(annualRate), Zero)
     \/ Le(ToNumber(years), Zero)
  THEN NULL
  ELSE FromMonthlyPayment(P, n, MonthlyPayment(P, r, n))

calculateMortgage(principal, annualRate, years) ==
  FromParsed(parseFloat(principal),
             FDiv(FDiv(parseFloat(annualRate), FromInt(12)), FromInt(100)),
             FMul(parseFloat(years), FromInt(12)),
             annualRate, years)

(***************************************************************************)
(* The texts the model draws: what a user types into a field, and what a   *)
(* caller hands to calculateMortgage.                                      *)
(***************************************************************************)
Empty == <<>>
Principals == {Empty, <<"a">>, <<"0">>, <<"-", "1">>, <<"3", "1">>, <<"1", "2", "3">>}
\* 0.0000000000001, a rate so small that 1 + r rounds to 1
TinyRate   == <<"0", ".", "0", "0", "0", "0", "0", "0", "0", "0", "0", "0", "0", "0", "1">>
Rates      == {Empty, <<"a">>, <<"0">>, <<"-", "1">>, <<"5">>, TinyRate}
Terms      == {Empty, <<"a">>, <<"0">>, <<"-", "1">>, <<"1">>, <<"5">>}
MortgageTypes == {"fixed", "variable"}
Texts == [principal |-> Principals, interestRate |-> Rates, loanTerm |-> Terms]
Fields == DOMAIN Texts

\* calculateMortgage on the texts drawn, evaluated once
CalcMemo ==
  [p \in Principals, r \in Rates, y \in Terms |-> calculateMortgage(p, r, y)]

(***************************************************************************)
(* The application shell.  A world w is the mutable state the handlers     *)
(* share: w.state (the state object), w.form (the DOM form), w.store       *)
(* (window.mortgageData) and w.view (what has been rendered).  Each        *)
(* function of app.js is an operator from the world before to the world    *)
(* after.                                                                  *)
(***************************************************************************)
\* saveToStorage (app.js 81-96)
saveToStorage(w) ==
  [w EXCEPT !.store = [k            |-> "data",
                       principal    |-> w.state.principal,
                       interestRate |-> w.state.interestRate,
                       loanTerm     |-> w.state.loanTerm,
                       mortgageType |-> w.state.mortgageType,
                       theme        |-> w.state.theme]]

\* a || b for a text a and a string a
OrText(a, b) == IF Truthy(a) THEN a ELSE b
OrString(a, b) == IF a # "" THEN a ELSE b

\* loadFromStorage (app.js 98-114)
loadFromStorage(w) ==
  IF w.store # NULL
  THEN [w EXCEPT !.state.principal    = OrText(w.store.principal, Empty),
                 !.state.interestRate = OrText(w.store.interestRate, Empty),
                 !.state.loanTerm     = OrText(w.store.loanTerm, Empty),
                 !.state.mortgageType = OrString(w.store.mortgageType, "fixed"),
                 !.state.theme        = OrString(w.store.theme, "light")]
  ELSE w

\* updateChartLegend (app.js 206-228)
updateChartLegend(w, results) ==
  [w EXCEPT !.view.legend = [k         |-> "legend",
                             principal |-> results.principalAmount,
                             interest  |-> results.totalInterest,
                             colors    |-> w.view.dataTheme]]

\* updateChart (app.js 146-204): the chart there was is destroyed and a new
\* one, coloured after the current theme, takes its place
updateChart(w, results) ==
  updateChartLegend(
    [w EXCEPT !.state.chart = [k      |-> "chart",
                               data   |-> <<results.principalAmount,
                                            results.totalInterest>>,
                               total  |-> results.totalPayment,
                               colors |-> w.view.dataTheme]],
    results)

\* setTheme (app.js 120-135)
setTheme(w, theme) ==
  LET w1 == [w EXCEPT !.state.theme = theme,
                      !.view.dataTheme = theme,
                      !.view.icon = IF theme = "dark" THEN "sun" ELSE "moon"]
      w2 == saveToStorage(w1)
  IN  IF w2.state.results # NULL THEN updateChart(w2, w2.state.results) ELSE w2

\* toggleTheme (app.js 137-140)
toggleTheme(w) ==
  setTheme(w, IF w.state.theme = "light" THEN "dark" ELSE "light")

\* renderResults (app.js 234-286): the placeholder for no results, the
\* figures otherwise
renderResults(w, results) == [w EXCEPT !.view.display = results]

\* the results validateAndCalculate arrives at (app.js 307-330)
computeResults(principal, interestRate, loanTerm) ==
  IF ~Truthy(principal) \/ ~Truthy(interestRate) \/ ~Truthy(loanTerm)
  THEN NULL
  ELSE IF \/ Le(parseFloat(principal), Zero)
          \/ Lt(parseFloat(interestRate), Zero)
          \/ Le(parseFloat(loanTerm), Zero)
  THEN NULL
  ELSE CalcMemo[principal, interestRate, loanTerm]

\* computeResults on the texts drawn, evaluated once
ResultsMemo ==
  [p \in Principals, r \in Rates, y \in Terms |-> computeResults(p, r, y)]

\* the end of validateAndCalculate, from the results on (app.js 312-330)
showResults(w, results) ==
  IF results # NULL
  THEN updateChart(renderResults([w EXCEPT !.state.results = results], results),
                   results)
  ELSE renderResults([w EXCEPT !.state.results = NULL], NULL)

\* validateAndCalculate (app.js 292-331)
validateAndCalculate(w) ==
  showResults(
    saveToStorage([w EXCEPT !.state.principal    = w.form.principal,
                            !.state.interestRate = w.form.interestRate,
                            !.state.loanTerm     = w.form.loanTerm,
                            !.state.mortgageType = w.form.mortgageType]),
    ResultsMemo[w.form.principal, w.form.interestRate, w.form.loanTerm])

\* resetForm without its call of saveToStorage
resetFormUnsaved(w) ==
  LET w1 == [w EXCEPT !.form = [principal    |-> Empty,
                                interestRate |-> Empty,
                                loanTerm     |-> Empty,
                                mortgageType |-> "fixed"],
                      !.state.principal    = Empty,
                      !.state.interestRate = Empty,
                      !.state.loanTerm     = Empty,
                      !.state.mortgageType = "fixed",
                      !.state.results      = NULL]
      w2 == renderResults(w1, NULL)
  IN  IF w2.state.chart # NULL THEN [w2 EXCEPT !.state.chart = NULL] ELSE w2

\* resetForm (app.js 333-358)
resetForm(w) ==
  LET w1 == [w EXCEPT !.form = [principal    |-> Empty,
                                interestRate |-> Empty,
                                loanTerm     |-> Empty,
                                mortgageType |-> "fixed"],
                      !.state.principal    = Empty,
                      !.state.interestRate = Empty,
                      !.state.loanTerm     = Empty,
                      !.state.mortgageType = "fixed",
                      !.state.results      = NULL]
      w2 == renderResults(saveToStorage(w1), NULL)
  IN  IF w2.state.chart # NULL THEN [w2 EXCEPT !.state.chart = NULL] ELSE w2

\* populateFormFromState (app.js 360-373)
populateFormFromState(w) ==
  [w EXCEPT
     !.form.principal    = IF Truthy(w.state.principal) THEN w.state.principal ELSE @,
     !.form.interestRate = IF Truthy(w.state.interestRate) THEN w.state.interestRate ELSE @,
     !.form.loanTerm     = IF Truthy(w.state.loanTerm) THEN w.state.loanTerm ELSE @,
     !.form.mortgageType = IF w.state.mortgageType # "" THEN w.state.mortgageType ELSE @]

\* init (app.js 404-421); initializeEventListeners is the started flag
init(w) ==
  LET w1 == populateFormFromState(setTheme(loadFromStorage(w), loadFromStorage(w).state.theme))
  IN  IF Truthy(w1.state.principal) /\ Truthy(w1.state.interestRate)
         /\ Truthy(w1.state.loanTerm)
      THEN validateAndCalculate(w1)
      ELSE w1

(***************************************************************************)
(* The state machine.                                                      *)
(***************************************************************************)
World == [state |-> state, form |-> form, store |-> store, view |-> view]

Becomes(w) ==
  /\ state' = w.state
  /\ form'  = w.form
  /\ store' = w.store
  /\ view'  = w.view

PENDING == [k |-> "pending"]

\* the module-level state object (app.js 6-14), the page as loaded, and
\* window.mortgageData not yet set
InitApp ==
  /\ state = [principal |-> Empty, interestRate |-> Empty, loanTerm |-> Empty,
              mortgageType |-> "fixed", theme |-> "light",
              results |-> NULL, chart |-> NULL]
  /\ form = [principal |-> Empty, interestRate |-> Empty, loanTerm |-> Empty,
             mortgageType |-> "fixed"]
  /\ store = NULL
  /\ view = [display |-> NULL, dataTheme |-> "unset", icon |-> "unset",
             legend |-> NULL]
  /\ started = FALSE

\* the script runs init once the DOM is ready (app.js 423-428)
DOMContentLoaded ==
  /\ ~started
  /\ Becomes(init(World))
  /\ started' = TRUE
  /\ UNCHANGED <<callArgs, ret>>

\* the user edits one field; its input listener runs validateAndCalculate
\* (app.js 381-385)
InputEvent(field, text) ==
  /\ started
  /\ form[field] # text
  /\ Becomes(validateAndCalculate([World EXCEPT !.form[field] = text]))
  /\ UNCHANGED <<started, callArgs, ret>>

\* the user picks another mortgage type; its change listener runs
\* validateAndCalculate (app.js 388-391)
RadioChange(type) ==
  /\ started
  /\ form.mortgageType # type
  /\ Becomes(validateAndCalculate([World EXCEPT !.form.mortgageType = type]))
  /\ UNCHANGED <<started, callArgs, ret>>

\* the reset button (app.js 394)
ResetClick ==
  /\ started
  /\ Becomes(resetForm(World))
  /\ UNCHANGED <<started, callArgs, ret>>

\* the theme toggle (app.js 397)
ThemeClick ==
  /\ started
  /\ Becomes(toggleTheme(World))
  /\ UNCHANGED <<started, callArgs, ret>>

\* a call that leaves its result in the shared state object
CallStoring(principal, annualRate, years) ==
  /\ callArgs' = <<principal, annualRate, years>>
  /\ ret' = CalcMemo[principal, annualRate, years]
  /\ state' = [state EXCEPT !.results = CalcMemo[principal, annualRate, years]]
  /\ UNCHANGED <<form, store, view, started>>

\* a direct call of calculateMortgage (app.js 24-58)
Call(principal, annualRate, years) ==
  /\ callArgs' = <<principal, annualRate, years>>
  /\ ret' = CalcMemo[principal, annualRate, years]
  /\ UNCHANGED <<state, form, store, view, started>>

\* the arguments of the direct calls made while the application runs
ProbeArgs == {<<(<<"1", "2", "3">>), (<<"5">>), (<<"5">>)>>,
              <<(<<"a">>), (<<"5">>), (<<"5">>)>>}

Init ==
  /\ InitApp
  /\ callArgs = <<Empty, Empty, Empty>>
  /\ ret = PENDING

Next ==
  \/ DOMContentLoaded
  \/ \E field \in Fields : \E text \in Texts[field] : InputEvent(field, text)
  \/ \E type \in MortgageTypes : RadioChange(type)
  \/ ResetClick
  \/ ThemeClick
  \/ \E a \in ProbeArgs : Call(a[1], a[2], a[3])

Spec == Init /\ [][Next]_vars

(***************************************************************************)
(* The calculation on its own: the three inputs are drawn at the start,    *)
(* calculateMortgage is called on them, and they are typed into the form   *)
(* of the running application.                                             *)
(***************************************************************************)
FieldOf == <<"principal", "interestRate", "loanTerm">>

InitCalc ==
  /\ InitApp
  /\ callArgs \in Principals \X Rates \X Terms
  /\ ret = PENDING

Compute ==
  /\ ret = PENDING
  /\ Call(callArgs[1], callArgs[2], callArgs[3])

NextCalc ==
  \/ DOMContentLoaded
  \/ Compute
  \/ \E i \in 1..3 : InputEvent(FieldOf[i], callArgs[i])

SpecCalc == InitCalc /\ [][NextCalc]_vars

(***************************************************************************)
(* The properties.  The arguments of a call and the contents of the form   *)
(* are texts; Num is the number a text denotes.                            *)
(***************************************************************************)
\* the number a text denotes: NaN for the empty text and for a text that
\* is not a numeric literal
Num(t) == IF t = <<>> THEN NaN ELSE ToNumber(t)

Positive(x) == Lt(Zero, x)
NonNegative(x) == Le(Zero, x)
Abs(x) == IF x.k = "nan" THEN x ELSE [x EXCEPT !.s = 0]

\* the relative tolerance 1e-6
Tolerance == parseFloat(<<"0", ".", "0", "0", "0", "0", "0", "1">>)
Within(x, y, scale) == Le(Abs(FSub(x, y)), FMul(Tolerance, Abs(scale)))

Hundred == FromInt(100)
Months(t) == FMul(Num(t), FromInt(12))

\* principal > 0, annualRate >= 0 and years > 0
ValidArgs(a) ==
  Positive(Num(a[1])) /\ NonNegative(Num(a[2])) /\ Positive(Num(a[3]))

\* principal <= 0, or annualRate < 0, or years <= 0
InvalidArgs(a) ==
  Le(Num(a[1]), Zero) \/ Lt(Num(a[2]), Zero) \/ Le(Num(a[3]), Zero)

\* one of the three texts parses to NaN
Unparseable(a) == \E i \in 1..3 : IsNaN(parseFloat(a[i]))

\* principal > 0, a rate of zero, years > 0
ZeroRateArgs(a) ==
  Positive(Num(a[1])) /\ IsZero(Num(a[2])) /\ Positive(Num(a[3]))

Called == ret # PENDING
FormArgs == <<form.principal, form.interestRate, form.loanTerm>>
IsSummary(x) == x.k = "summary"

\* C1: calculateMortgage returns null whenever principal <= 0 or
\* annualRate < 0 or years <= 0, whatever the other arguments are, and a
\* summary object whenever principal > 0, annualRate >= 0 and years > 0.
C1_InvalidSignal ==
  Called =>
    /\ InvalidArgs(callArgs) => ret = NULL
    /\ ValidArgs(callArgs) => IsSummary(ret)

\* a call with a zero principal and a rate that is no number returned null
C1_Witness ==
  /\ Called
  /\ IsZero(Num(callArgs[1]))
  /\ IsNaN(Num(callArgs[2]))
  /\ ret = NULL

\* C2: an argument that parses to NaN makes calculateMortgage return null,
\* and validateAndCalculate on such form values leaves state.results null.
C2_UnparseableIsInvalid ==
  /\ Called /\ Unparseable(callArgs) => ret = NULL
  /\ started /\ Unparseable(FormArgs) => state.results = NULL

\* a call whose principal is no number returned a summary of NaN
C2_Failing ==
  /\ Called
  /\ IsNaN(parseFloat(callArgs[1]))
  /\ IsSummary(ret)
  /\ IsNaN(ret.monthlyPayment)

C4_Totals ==
  Called /\ ValidArgs(callArgs) =>
    /\ IsSummary(ret)
    /\ ret.totalPayment = FMul(ret.monthlyPayment, Months(callArgs[3]))
    /\ ret.totalInterest = FSub(ret.totalPayment, Num(callArgs[1]))
    /\ ret.principalAmount = Num(callArgs[1])

\* a call with valid arguments and a rate above zero returned a summary
\* with interest to pay
C4_Witness ==
  /\ Called
  /\ ValidArgs(callArgs)
  /\ Positive(Num(callArgs[2]))
  /\ IsSummary(ret)
  /\ Positive(ret.totalInterest)
  /\ IsNum(ret.totalInterest)

\* C5: for valid arguments interestPercentage + principalPercentage = 100
\* within the tolerance, both percentages are numbers and totalPayment is
\* not zero.
C5_Percentages ==
  Called /\ ValidArgs(callArgs) =>
    /\ IsSummary(ret)
    /\ IsNum(ret.interestPercentage)
    /\ IsNum(ret.principalPercentage)
    /\ ~IsZero(ret.totalPayment)
    /\ Within(FAdd(ret.interestPercentage, ret.principalPercentage), Hundred, Hundred)

\* a call with valid arguments returned a summary whose interestPercentage
\* is NaN
C5_Failing ==
  /\ Called
  /\ ValidArgs(callArgs)
  /\ IsSummary(ret)
  /\ IsNaN(ret.interestPercentage)

\* C6: for valid arguments monthlyPayment, totalPayment and totalInterest
\* are all >= 0.
C6_NonNegative ==
  Called /\ ValidArgs(callArgs) =>
    /\ IsSummary(ret)
    /\ NonNegative(ret.monthlyPayment)
    /\ NonNegative(ret.totalPayment)
    /\ NonNegative(ret.totalInterest)

\* a call with valid arguments returned a totalInterest below zero
C6_Failing ==
  /\ Called
  /\ ValidArgs(callArgs)
  /\ IsSummary(ret)
  /\ Lt(ret.totalInterest, Zero)

\* C7: once the listeners run, state.results is calculateMortgage of the
\* form values when all three are present and valid, and null otherwise.
C7_ResultsFollowForm ==
  started =>
    state.results = IF ValidArgs(FormArgs)
                    THEN CalcMemo[form.principal, form.interestRate, form.loanTerm]
                    ELSE NULL

\* the form holds a principal that is no number and a summary is stored
C7_Failing ==
  /\ started
  /\ IsNaN(Num(form.principal))
  /\ form.principal # Empty
  /\ IsSummary(state.results)

\* C8: once init has run, window.mortgageData holds the principal,
\* interestRate, loanTerm, mortgageType and theme of state, and
\* loadFromStorage restores exactly those values.
C8_StoreMirrorsState ==
  started =>
    /\ store # NULL
    /\ store.principal = state.principal
    /\ store.interestRate = state.interestRate
    /\ store.loanTerm = state.loanTerm
    /\ store.mortgageType = state.mortgageType
    /\ store.theme = state.theme
    /\ loadFromStorage(World).state = state

\* inputs were typed, the type and the theme were changed, and the form
\* was then reset
C8_Witness ==
  /\ started
  /\ state.theme = "dark"
  /\ store.theme = "dark"
  /\ state.principal = Empty
  /\ view.legend # NULL
  /\ state.results = NULL
  /\ state.chart = NULL

C10_ChartOnlyWithResults ==
  started => (state.chart # NULL => state.results # NULL)

\* the chart of earlier inputs is still there with no results
C10_Failing ==
  /\ started
  /\ state.chart # NULL
  /\ state.results = NULL
====
